---- MODULE Spec2Model ----
(***************************************************************************)
(* A model of store/rootmultistore.go: the root multi-store that mounts,   *)
(* loads, commits and queries a set of CommitStores over one database.     *)
(*                                                                         *)
(* Byte strings (hashes, encoded keys) are TLA+ strings; nil is "".        *)
(* A hash function is modelled as an injective string constructor.         *)
(***************************************************************************)
EXTENDS Integers, Sequences, FiniteSets, TLC

(***************************************************************************)
(* Bounds of the model.                                                    *)
(***************************************************************************)
\* Commit() is not started once lastCommitID.Version has reached this.
MaxVersion == 2
\* A substore's Commit() yields one of this many distinct root hashes.
NumHashes == 1
\* The chain height (sdk.UpgradeMgr) advances up to this value.
MaxHeight == 2

(***************************************************************************)
(* Store keys, store types, database handles.                              *)
(***************************************************************************)
\* The nil StoreKey.
NilKey == "nil"
\* StoreKey objects: identity is the pointer, not the name. ka and kb are
\* *sdk.KVStoreKey, kt is a *sdk.TransientStoreKey of the same name as ka.
StoreKeys == {"ka", "kb", "kt"}
\* key.Name()
Name(key) ==
  CASE key = "ka" -> "a"
    [] key = "kt" -> "a"
    [] key = "kb" -> "b"
    [] OTHER -> ""
\* key.(*sdk.TransientStoreKey) succeeds
IsTransientStoreKey(key) == key = "kt"
\* The names in byte order, as sort.Sort of the merkle map orders them.
SortedNames == <<"a", "b", "c">>
StoreNames == {SortedNames[i] : i \in 1..Len(SortedNames)}

StoreTypes == {"Multi", "IAVL", "DB", "Transient"}
\* A nil dbm.DB argument of MountStoreWithDB.
NilDB == "nil"
\* The (typ, db) arguments MountStoreWithDB is called with: every store
\* type over the shared database.
MountArgs == {<<typ, NilDB>> : typ \in StoreTypes}

(***************************************************************************)
(* Protocol upgrades (sdk.UpgradeMgr): a function of the chain height.     *)
(***************************************************************************)
VARIABLES
  height        \* sdk.UpgradeMgr.GetHeight()

\* The height at which BEP171 activates.
UpgradeHeightBEP171 == 2
\* The height at which the store named "b" starts to be committed.
StoreKeyHeightB == 1
\* UpgradeMgr.GetStoreKeyHeight(name): 0 means "from genesis".
GetStoreKeyHeight(name) == IF name = "b" THEN StoreKeyHeightB ELSE 0

\* sdk.IsUpgrade(sdk.BEP171)
IsUpgradeBEP171 == height >= UpgradeHeightBEP171
\* sdk.ShouldCommitStore(name)
ShouldCommitStore(name) ==
  GetStoreKeyHeight(name) = 0 \/ GetStoreKeyHeight(name) <= height
\* sdk.ShouldSetStoreVersion(name)
ShouldSetStoreVersion(name) ==
  GetStoreKeyHeight(name) # 0 /\ GetStoreKeyHeight(name) = height

(***************************************************************************)
(* CommitID, StoreInfo, CommitInfo.                                        *)
(***************************************************************************)
\* CommitID{}
ZeroCommitID == [Version |-> 0, Hash |-> ""]
\* The root hashes a substore can report: "h1", "h2", ...
SubHashes == {"h" \o ToString(i) : i \in 1..NumHashes}

\* tmhash.Sum(bz)
tmhash(bz) == "H(" \o bz \o ")"
\* cdc.MarshalBinaryLengthPrefixed(si.Core): the version and the hash.
MarshalCore(core) ==
  "core{" \o ToString(core.CommitID.Version) \o ":" \o core.CommitID.Hash \o "}"

\* StoreInfo.GetHash
GetHash(si) == si.Core.CommitID.Hash
\* StoreInfo.Hash
StoreInfoHash(si) == tmhash(MarshalCore(si.Core))

\* The last index of the slice holding an entry for name (a later entry of
\* the same name overwrites an earlier one in a Go map).
LastIndexOf(infos, name) ==
  CHOOSE i \in 1..Len(infos) :
    /\ infos[i].Name = name
    /\ \A j \in (i + 1)..Len(infos) : infos[j].Name # name
\* The names a StoreInfos slice holds.
InfoNames(infos) == {infos[i].Name : i \in 1..Len(infos)}

\* The map m that CommitInfo.Hash builds.
HashMap(ci) ==
  IF IsUpgradeBEP171
  THEN [n \in InfoNames(ci.StoreInfos) |->
          GetHash(ci.StoreInfos[LastIndexOf(ci.StoreInfos, n)])]
  ELSE [n \in InfoNames(ci.StoreInfos) |->
          StoreInfoHash(ci.StoreInfos[LastIndexOf(ci.StoreInfos, n)])]

\* A mutation of toMap: the raw hash on both sides of the upgrade.
toMap_rawOnly(ci) ==
  [n \in InfoNames(ci.StoreInfos) |->
     ci.StoreInfos[LastIndexOf(ci.StoreInfos, n)].Core.CommitID.Hash]
\* CommitInfo.toMap
toMap(ci) ==
  IF IsUpgradeBEP171
  THEN [n \in InfoNames(ci.StoreInfos) |->
          ci.StoreInfos[LastIndexOf(ci.StoreInfos, n)].Core.CommitID.Hash]
  ELSE [n \in InfoNames(ci.StoreInfos) |->
          StoreInfoHash(ci.StoreInfos[LastIndexOf(ci.StoreInfos, n)])]

(***************************************************************************)
(* merkle: the simple tree over the map's sorted key/value pairs.          *)
(***************************************************************************)
\* KVPair.Bytes(): the key and the hash of the value (simpleMap.Set).
KVPairBytes(key, value) == key \o "=" \o tmhash(value)
\* The leaf and inner node hashes.
leafHash(item) == "L(" \o item \o ")"
innerHash(left, right) == "I(" \o left \o "," \o right \o ")"
\* The split point of a tree of n leaves.
getSplitPoint(n) == (n + 1) \div 2

\* simpleMap.KVPairs after Sort: the keys of m in byte order.
SortedKeys(m) == SelectSeq(SortedNames, LAMBDA n : n \in DOMAIN m)
\* The leaves of the map's tree.
MapItems(m) ==
  [i \in 1..Len(SortedKeys(m)) |->
     KVPairBytes(SortedKeys(m)[i], m[SortedKeys(m)[i]])]

\* merkle.SimpleHashFromByteSlices
RECURSIVE SimpleHashFromByteSlices(_)
SimpleHashFromByteSlices(items) ==
  IF Len(items) = 0 THEN ""
  ELSE IF Len(items) = 1 THEN leafHash(items[1])
  ELSE LET k == getSplitPoint(Len(items))
       IN  innerHash(SimpleHashFromByteSlices(SubSeq(items, 1, k)),
                     SimpleHashFromByteSlices(SubSeq(items, k + 1, Len(items))))

\* merkle.SimpleHashFromMap
SimpleHashFromMap(m) == SimpleHashFromByteSlices(MapItems(m))

\* The aunts of leaf idx (1-based), from the leaf's sibling up to the root's
\* child, as SimpleProofsFromByteSlices flattens them.
RECURSIVE Aunts(_, _)
Aunts(items, idx) ==
  IF Len(items) <= 1 THEN <<>>
  ELSE LET k == getSplitPoint(Len(items))
           left == SubSeq(items, 1, k)
           right == SubSeq(items, k + 1, Len(items))
       IN  IF idx <= k
           THEN Append(Aunts(left, idx), SimpleHashFromByteSlices(right))
           ELSE Append(Aunts(right, idx - k), SimpleHashFromByteSlices(left))

\* The position (1-based) of name among the sorted keys of m; 0 if absent.
KeyIndex(m, name) ==
  IF name \in DOMAIN m
  THEN CHOOSE i \in 1..Len(SortedKeys(m)) : SortedKeys(m)[i] = name
  ELSE 0

\* merkle.SimpleProofsFromMap(m)[name]: Index is 0-based as in Go.
SimpleProofFromMap(m, name) ==
  [Total |-> Len(MapItems(m)),
   Index |-> KeyIndex(m, name) - 1,
   LeafHash |-> leafHash(MapItems(m)[KeyIndex(m, name)]),
   Aunts |-> Aunts(MapItems(m), KeyIndex(m, name))]

\* The inner ops of the existence proof: for each level from the leaf up,
\* the sibling as a prefix (the node is a right child) or as a suffix.
RECURSIVE ConvertInnerOps(_, _, _)
ConvertInnerOps(index, total, aunts) ==
  IF total <= 1 \/ Len(aunts) = 0 THEN <<>>
  ELSE LET numLeft == getSplitPoint(total)
           rest == SubSeq(aunts, 1, Len(aunts) - 1)
           top == aunts[Len(aunts)]
       IN  IF index < numLeft
           THEN Append(ConvertInnerOps(index, numLeft, rest),
                       [prefix |-> "", suffix |-> top])
           ELSE Append(ConvertInnerOps(index - numLeft, total - numLeft, rest),
                       [prefix |-> top, suffix |-> ""])

\* sdkproofs.ConvertExistenceProof(proof, key, value)
ConvertExistenceProof(proof, key, value) ==
  [Key |-> key, Value |-> value,
   Path |-> ConvertInnerOps(proof.Index, proof.Total, proof.Aunts)]

\* The root an existence proof commits to: the leaf of (Key, Value) folded
\* through the inner ops.
RECURSIVE ApplyPath(_, _)
ApplyPath(node, path) ==
  IF path = <<>> THEN node
  ELSE ApplyPath(IF path[1].prefix = ""
                 THEN innerHash(node, path[1].suffix)
                 ELSE innerHash(path[1].prefix, node),
                 Tail(path))
ExistenceProofRoot(ep) ==
  ApplyPath(leafHash(KVPairBytes(ep.Key, ep.Value)), ep.Path)

\* A mutation of Hash: the StoreInfos are hashed in slice order, not as a
\* map sorted by name.
Hash_sliceOrder(ci) ==
  SimpleHashFromByteSlices(
    [i \in 1..Len(ci.StoreInfos) |->
       KVPairBytes(ci.StoreInfos[i].Name, HashMap(ci)[ci.StoreInfos[i].Name])])
\* CommitInfo.Hash
Hash(ci) == SimpleHashFromMap(HashMap(ci))
\* A mutation of CommitID: the hash is left out.
CommitID_noHash(ci) == [Version |-> ci.Version, Hash |-> ""]
\* CommitInfo.CommitID
CommitID(ci) == [Version |-> ci.Version, Hash |-> Hash(ci)]

\* An existence proof that proves nothing (the shape of a proof op that
\* carries none).
NoExist == [Key |-> "", Value |-> "", Path |-> <<>>]
\* CommitInfo.ProofOp(storeName): panics when the name has no proof.
ProofOp(ci, storeName) ==
  IF storeName \notin DOMAIN toMap(ci)
  THEN [panic |-> TRUE, type |-> "", key |-> storeName, exist |-> NoExist,
        infos |-> <<>>]
  ELSE [panic |-> FALSE, type |-> "ics23:simple", key |-> storeName,
        exist |-> ConvertExistenceProof(
                    SimpleProofFromMap(toMap(ci), storeName),
                    storeName, toMap(ci)[storeName]),
        infos |-> <<>>]
\* NewMultiStoreProofOp(storeName, NewMultiStoreProof(storeInfos)).ProofOp()
MultiStoreProofOp(storeName, storeInfos) ==
  [panic |-> FALSE, type |-> "multistore", key |-> storeName,
   exist |-> NoExist, infos |-> storeInfos]

(***************************************************************************)
(* The backing database and the codec.                                     *)
(***************************************************************************)
\* "s/latest"
latestVersionKey == "s/latest"
\* fmt.Sprintf(commitInfoKeyFmt, ver): "s/<version>"
CommitInfoKey(ver) == "s/" \o ToString(ver)

\* What db.Get returns for a key that is not set.
NilBytes == [enc |-> "nil", typ |-> "", Version |-> 0, StoreInfos |-> <<>>]
\* Bytes that no amino decoder accepts.
GarbageBytes == [enc |-> "garbage", typ |-> "", Version |-> 0, StoreInfos |-> <<>>]
\* cdc.MarshalBinaryLengthPrefixed(version)
MarshalInt64(v) ==
  [enc |-> "amino", typ |-> "int64", Version |-> v, StoreInfos |-> <<>>]
\* cdc.MarshalBinaryLengthPrefixed(cInfo)
MarshalCommitInfo(ci) ==
  [enc |-> "amino", typ |-> "CommitInfo", Version |-> ci.Version,
   StoreInfos |-> ci.StoreInfos]
\* cdc.UnmarshalBinaryLengthPrefixed(bz, &latest)
UnmarshalInt64(bz) ==
  [err |-> ~(bz.enc = "amino" /\ bz.typ = "int64"), val |-> bz.Version]
\* cdc.UnmarshalBinaryLengthPrefixed(bz, &cInfo)
UnmarshalCommitInfo(bz) ==
  [err |-> ~(bz.enc = "amino" /\ bz.typ = "CommitInfo"),
   val |-> [Version |-> bz.Version, StoreInfos |-> bz.StoreInfos]]

\* db.Get(key)
dbGet(d, key) == IF key \in DOMAIN d THEN d[key] ELSE NilBytes
\* batch.Set(key, value): the batch is the sequence of pending writes.
batchSet(batch, key, value) == Append(batch, [key |-> key, value |-> value])
\* batch.Write(): every pending write is applied, in order, in one step.
RECURSIVE batchWrite(_, _)
batchWrite(d, batch) ==
  IF batch = <<>> THEN d
  ELSE batchWrite((batch[1].key :> batch[1].value) @@ d, Tail(batch))

\* A mutation of getLatestVersion: an unset pointer reads as version 1.
getLatestVersion_unsetIsOne(d) ==
  LET latestBytes == dbGet(d, latestVersionKey)
  IN  IF latestBytes = NilBytes THEN [panic |-> FALSE, ver |-> 1]
      ELSE IF UnmarshalInt64(latestBytes).err THEN [panic |-> TRUE, ver |-> 0]
      ELSE [panic |-> FALSE, ver |-> UnmarshalInt64(latestBytes).val]
\* getLatestVersion(db): 0 when the pointer is not set; panics on bytes it
\* cannot decode.
getLatestVersion(d) ==
  LET latestBytes == dbGet(d, latestVersionKey)
  IN  IF latestBytes = NilBytes THEN [panic |-> FALSE, ver |-> 0]
      ELSE IF UnmarshalInt64(latestBytes).err THEN [panic |-> TRUE, ver |-> 0]
      ELSE [panic |-> FALSE, ver |-> UnmarshalInt64(latestBytes).val]

\* setLatestVersion(batch, version)
setLatestVersion(batch, version) ==
  batchSet(batch, latestVersionKey, MarshalInt64(version))

\* A mutation of setCommitInfo: the record is filed under the old version.
setCommitInfo_prevKey(batch, version, cInfo) ==
  batchSet(batch, CommitInfoKey(version - 1), MarshalCommitInfo(cInfo))
\* setCommitInfo(batch, version, cInfo)
setCommitInfo(batch, version, cInfo) ==
  batchSet(batch, CommitInfoKey(version), MarshalCommitInfo(cInfo))

\* getCommitInfo(db, ver)
getCommitInfo(d, ver) ==
  LET cInfoBytes == dbGet(d, CommitInfoKey(ver))
      none == [Version |-> 0, StoreInfos |-> <<>>]
  IN  IF cInfoBytes = NilBytes
      THEN [err |-> TRUE, cInfo |-> none,
            msg |-> "failed to get rootMultiStore: no data"]
      ELSE IF UnmarshalCommitInfo(cInfoBytes).err
      THEN [err |-> TRUE, cInfo |-> none,
            msg |-> "failed to get rootMultiStore: amino error"]
      ELSE [err |-> FALSE, cInfo |-> UnmarshalCommitInfo(cInfoBytes).val,
            msg |-> ""]

(***************************************************************************)
(* The state of a rootMultiStore and of the process that owns it.          *)
(***************************************************************************)
VARIABLES
  db,            \* rs.db: key -> bytes, the keys that are set
  lastCommitID,  \* rs.lastCommitID
  storesParams,  \* rs.storesParams: StoreKey -> storeParams
  stores,        \* rs.stores: StoreKey -> CommitStore
  keysByName,    \* rs.keysByName: name -> StoreKey
  pc,            \* "idle", "commit" (inside Commit), "panic" (aborted)
  frame,         \* the locals of the Commit() in progress
  ret,           \* the last call and what it returned
  committed,     \* what the last Commit() that completed returned
  run,           \* v0: lastCommitID.Version when this instance was built
                 \* or last loaded; n: the Commit() calls completed since;
                 \* loaded: a load was called on this instance
  crashed,       \* whether this instance replaces one that died inside
                 \* Commit() and has only been set up (SetPruning,
                 \* MountStoreWithDB) since
  probe,         \* a CommitInfo and a store name given to the hash and
                 \* proof functions, and what they returned
  pruning,       \* rs.pruning
  trees,         \* the versions each IAVL tree holds in its partition of
                 \* the database: partition -> set of versions
  trace          \* writer: rs.traceWriter; context: rs.traceContext; arg:
                 \* the context last given to WithTracingContext; got: what
                 \* GetKVStore last returned

vars == <<height, db, lastCommitID, storesParams, stores, keysByName, pc,
          frame, ret, committed, run, crashed, probe, trace, pruning,
          trees>>

\* The locals of Commit() outside a call.
NoFrame == [version |-> 0, todo |-> {}, storeInfos |-> <<>>]
\* No instance has died inside Commit() since the last load, commit or
\* query.
NoCrash == [inCommit |-> FALSE, visited |-> 0]
\* What ret holds: op, the version argument, the outcome (for Query, the
\* response code), the CommitID returned (Commit), the log of a failure
\* response (Query), and for a LoadLatestVersion that is the first call
\* after the set-up of an instance that replaces one that died inside
\* Commit(), the number of substores that had committed when the process
\* died (-1 otherwise).
Ret(op, ver, result) ==
  [op |-> op, ver |-> ver, result |-> result, id |-> ZeroCommitID,
   log |-> "",
   recovery |-> IF op = "LoadLatestVersion" /\ crashed.inCommit
                THEN crashed.visited ELSE -1]

\* No CommitInfo was given to the hash and proof functions.
NoProbe ==
  [ci |-> [Version |-> 0, StoreInfos |-> <<>>], name |-> "", applied |-> "",
   hash |-> "", op |-> [panic |-> FALSE, type |-> "", key |-> "",
                        exist |-> NoExist, infos |-> <<>>]]

\* sdk.PruningStrategy; PruneSyncable is the zero value.
PruneSyncable == "PruneSyncable"
PruneEverything == "PruneEverything"
PruneNothing == "PruneNothing"
PruningStrategies == {PruneSyncable, PruneEverything, PruneNothing}

\* A nil io.Writer.
NilWriter == "nil"
\* A nil TraceContext; a TraceContext that is not nil holds the map m.
NilContext == [nil |-> TRUE, m |-> <<>>]
\* rs.stores[key] as GetKVStore returns it when tracing is off.
PlainStore(key) ==
  [wrapped |-> FALSE, store |-> key, writer |-> NilWriter,
   context |-> NilContext]
\* Tracing as NewCommitMultiStore leaves it: no writer, no context.
NoTrace ==
  [writer |-> NilWriter, context |-> NilContext, arg |-> NilContext,
   got |-> PlainStore(NilKey)]

\* NewCommitMultiStore(db) on an empty database.
Init ==
  /\ probe = NoProbe
  /\ trace = NoTrace
  /\ pruning = PruneSyncable
  /\ trees = <<>>
  /\ height = 0
  /\ db = <<>>
  /\ lastCommitID = ZeroCommitID
  /\ storesParams = <<>>
  /\ stores = <<>>
  /\ keysByName = <<>>
  /\ pc = "idle"
  /\ frame = NoFrame
  /\ ret = Ret("New", 0, "ok")
  /\ committed = [id |-> ZeroCommitID, bep171 |-> FALSE]
  /\ run = [v0 |-> 0, n |-> 0, loaded |-> FALSE]
  /\ crashed = NoCrash

(***************************************************************************)
(* MountStoreWithDB.                                                       *)
(***************************************************************************)
\* A mutation of MountRejected: the name index is not consulted.
MountRejected_noNameCheck(key) ==
  key = NilKey \/ key \in DOMAIN storesParams
\* The three panics of MountStoreWithDB.
MountRejected(key) ==
  \/ key = NilKey
  \/ key \in DOMAIN storesParams
  \/ Name(key) \in DOMAIN keysByName

MountStoreWithDB(key, typ, dbh) ==
  /\ pc = "idle"
  /\ IF MountRejected(key)
     THEN /\ pc' = "panic"
          /\ ret' = Ret("MountStoreWithDB", 0, "panic")
          /\ UNCHANGED <<storesParams, keysByName>>
     ELSE /\ storesParams' =
               (key :> [key |-> key, typ |-> typ, db |-> dbh]) @@ storesParams
          /\ keysByName' = (Name(key) :> key) @@ keysByName
          /\ ret' = Ret("MountStoreWithDB", 0, "ok")
          /\ pc' = "idle"
  /\ UNCHANGED <<probe, trace, pruning, trees, height, db, lastCommitID, stores, frame, committed, run, crashed>>

(***************************************************************************)
(* Loading.                                                                *)
(***************************************************************************)
\* The handle of rs.db, as opposed to a handle given at mount time.
RootDB == "rs.db"
\* dbm.NewPrefixDB(...): the database and the key prefix of a substore.
PrefixDB(params) ==
  IF params.db # NilDB
  THEN [handle |-> params.db, prefix |-> "s/_/"]
  ELSE [handle |-> RootDB, prefix |-> "s/k:" \o Name(params.key) \o "/"]

\* A store that was not built.
NoStore ==
  [typ |-> "", id |-> ZeroCommitID, db |-> [handle |-> "", prefix |-> ""],
   pruning |-> ""]
\* The versions the IAVL tree of the partition pdb holds.
TreeVersions(pdb) == IF pdb \in DOMAIN trees THEN trees[pdb] ELSE {}
\* LoadIAVLStore(db, id, pruning): the store at the CommitID it was given,
\* or an error when the tree does not hold the version of id (a version
\* that was never saved there, or that was pruned). Version 0 asks for no
\* saved version.
LoadIAVLStore(pdb, id, strategy) ==
  IF id.Version > 0 /\ id.Version \notin TreeVersions(pdb)
  THEN [err |-> TRUE, store |-> NoStore]
  ELSE [err |-> FALSE,
        store |-> [typ |-> "IAVL", id |-> id, db |-> pdb,
                   pruning |-> strategy]]
\* newTransientStore(): in memory, no CommitID.
newTransientStore == [typ |-> "Transient", id |-> ZeroCommitID,
                      pruning |-> "",
                      db |-> [handle |-> "mem", prefix |-> ""]]

\* rs.loadCommitStoreFromParams(key, id, params): a store, an error or a
\* panic.
loadCommitStoreFromParams(key, id, params) ==
  CASE params.typ = "Multi" -> [kind |-> "panic", store |-> NoStore]
    [] params.typ = "IAVL" ->
         LET loaded == LoadIAVLStore(PrefixDB(params), id, pruning)
         IN  [kind |-> IF loaded.err THEN "error" ELSE "ok",
              store |-> loaded.store]
    [] params.typ = "DB" -> [kind |-> "panic", store |-> NoStore]
    [] params.typ = "Transient" ->
         IF ~IsTransientStoreKey(key)
         THEN [kind |-> "error", store |-> NoStore]
         ELSE [kind |-> "ok", store |-> newTransientStore]
    [] OTHER -> [kind |-> "panic", store |-> NoStore]

\* rs.nameToKey(name): the mounted key of that name; panics if there is none.
HasKeyNamed(name) == \E key \in DOMAIN storesParams : Name(key) = name
nameToKey(name) == CHOOSE key \in DOMAIN storesParams : Name(key) = name

\* The infos map of LoadVersion: mounted key -> StoreInfo of its name.
InfosByKey(cInfo) ==
  [key \in {nameToKey(n) : n \in InfoNames(cInfo.StoreInfos)} |->
     cInfo.StoreInfos[LastIndexOf(cInfo.StoreInfos, Name(key))]]

\* The CommitID LoadVersion resolves for a mounted key.
ResolvedID(infos, key) ==
  IF key \in DOMAIN infos THEN infos[key].Core.CommitID ELSE ZeroCommitID

\* The mounted keys whose store cannot be built (an error or a panic) at
\* the CommitID LoadVersion resolves for them from infos.
FailingKeys(infos) ==
  {key \in DOMAIN storesParams :
     loadCommitStoreFromParams(key, ResolvedID(infos, key),
                               storesParams[key]).kind # "ok"}

\* The version-0 branch of LoadVersion. The loop over rs.storesParams runs
\* in map order and installs each store as it goes: it installs the keys in
\* done and then meets bad, or it installs every key.
LoadVersionZero(op) ==
  IF FailingKeys(<<>>) = {}
  THEN /\ stores' =
            [key \in DOMAIN storesParams |->
               loadCommitStoreFromParams(key, ZeroCommitID,
                                         storesParams[key]).store] @@ stores
       /\ lastCommitID' = ZeroCommitID
       /\ run' = [v0 |-> 0, n |-> 0, loaded |-> TRUE]
       /\ pc' = "idle"
       /\ ret' = Ret(op, 0, "ok")
  ELSE \E bad \in FailingKeys(<<>>) :
       \E done \in SUBSET (DOMAIN storesParams \ FailingKeys(<<>>)) :
         /\ stores' =
              [key \in done |->
                 loadCommitStoreFromParams(key, ZeroCommitID,
                                           storesParams[key]).store] @@ stores
         /\ LET kind == loadCommitStoreFromParams(
                          bad, ZeroCommitID, storesParams[bad]).kind
            IN  /\ pc' = IF kind = "panic" THEN "panic" ELSE "idle"
                /\ ret' = Ret(op, 0, kind)
         /\ run' = [run EXCEPT !.loaded = TRUE]
         /\ UNCHANGED lastCommitID

\* The branch of LoadVersion for ver >= 1: the new stores are built aside
\* and installed only when every one was built.
LoadVersionAt(op, ver) ==
  LET got == getCommitInfo(db, ver)
      cInfo == got.cInfo
  IN  IF got.err
      THEN /\ ret' = Ret(op, ver, "error")
           /\ pc' = "idle"
           /\ run' = [run EXCEPT !.loaded = TRUE]
           /\ UNCHANGED <<stores, lastCommitID>>
      ELSE IF \E n \in InfoNames(cInfo.StoreInfos) : ~HasKeyNamed(n)
      THEN /\ ret' = Ret(op, ver, "panic")
           /\ pc' = "panic"
           /\ run' = [run EXCEPT !.loaded = TRUE]
           /\ UNCHANGED <<stores, lastCommitID>>
      ELSE IF FailingKeys(InfosByKey(cInfo)) # {}
      THEN \E bad \in FailingKeys(InfosByKey(cInfo)) :
             LET kind == loadCommitStoreFromParams(
                           bad, ResolvedID(InfosByKey(cInfo), bad),
                           storesParams[bad]).kind
             IN  /\ ret' = Ret(op, ver, kind)
                 /\ pc' = IF kind = "panic" THEN "panic" ELSE "idle"
                 /\ run' = [run EXCEPT !.loaded = TRUE]
                 /\ UNCHANGED <<stores, lastCommitID>>
      ELSE /\ stores' =
                [key \in DOMAIN storesParams |->
                   loadCommitStoreFromParams(
                     key, ResolvedID(InfosByKey(cInfo), key),
                     storesParams[key]).store]
           /\ lastCommitID' = CommitID(cInfo)
           /\ run' = [v0 |-> ver, n |-> 0, loaded |-> TRUE]
           /\ pc' = "idle"
           /\ ret' = Ret(op, ver, "ok")

\* rs.LoadVersion(ver)
LoadVersion(ver) ==
  /\ pc = "idle"
  /\ IF ver = 0 THEN LoadVersionZero("LoadVersion")
     ELSE LoadVersionAt("LoadVersion", ver)
  /\ crashed' = NoCrash
  /\ UNCHANGED <<probe, trace, pruning, trees, height, db, storesParams, keysByName, frame, committed>>

\* rs.LoadLatestVersion()
LoadLatestVersion ==
  /\ pc = "idle"
  /\ LET latest == getLatestVersion(db)
     IN  IF latest.panic
         THEN /\ ret' = Ret("LoadLatestVersion", -1, "panic")
              /\ pc' = "panic"
              /\ run' = [run EXCEPT !.loaded = TRUE]
              /\ UNCHANGED <<stores, lastCommitID>>
         ELSE IF latest.ver = 0 THEN LoadVersionZero("LoadLatestVersion")
         ELSE LoadVersionAt("LoadLatestVersion", latest.ver)
  /\ crashed' = NoCrash
  /\ UNCHANGED <<probe, trace, pruning, trees, height, db, storesParams, keysByName, frame, committed>>

(***************************************************************************)
(* Commit. The call is modelled in steps so that the process can die       *)
(* between them: the entry, one step per live store visited by             *)
(* commitStores (in map order), and the batch write with the return.       *)
(***************************************************************************)
\* A CommitStore's SetVersion(v): a transient store ignores it.
StoreSetVersion(store, v) ==
  IF store.typ = "IAVL"
  THEN [store EXCEPT !.id = [Version |-> v, Hash |-> store.id.Hash]]
  ELSE store
\* A CommitStore's Commit(): an IAVL store saves the next version of its
\* tree, whose root hash is h; a transient store resets and has no CommitID.
StoreCommit(store, h) ==
  IF store.typ = "IAVL"
  THEN [store EXCEPT !.id = [Version |-> store.id.Version + 1, Hash |-> h]]
  ELSE store

\* A CommitStore's SetPruning(strategy): a transient store ignores it.
StoreSetPruning(store, strategy) ==
  IF store.typ = "IAVL" THEN [store EXCEPT !.pruning = strategy] ELSE store
\* The number of versions before the current one that a strategy keeps.
NumRecent(strategy) == IF strategy = PruneSyncable THEN 100 ELSE 0
\* The versions an IAVL tree holds after its store, pruning with strategy,
\* has saved version v: the versions it held and v, less the version that
\* fell out of the recent ones (PruneNothing releases none).
PrunedTree(versions, v, strategy) ==
  (versions \cup {v}) \
    (IF strategy # PruneNothing /\ v - 1 - NumRecent(strategy) > 0
     THEN {v - 1 - NumRecent(strategy)} ELSE {})

\* A mutation of NewStoreInfo: the CommitID is not filled in.
NewStoreInfo_noCommitID(key, commitID) ==
  [Name |-> Name(key), Core |-> [CommitID |-> ZeroCommitID]]
\* The StoreInfo commitStores records for a store.
NewStoreInfo(key, commitID) ==
  [Name |-> Name(key), Core |-> [CommitID |-> commitID]]

\* A mutation of NextVersion: the version is not advanced.
NextVersion_same(id) == id.Version
\* version := rs.lastCommitID.Version + 1
NextVersion(id) == id.Version + 1

\* Commit(), entry: the version, and commitStores about to range over
\* rs.stores.
CommitBegin ==
  /\ pc = "idle"
  /\ lastCommitID.Version < MaxVersion
  /\ pc' = "commit"
  /\ frame' = [version |-> NextVersion(lastCommitID),
               todo |-> DOMAIN stores, storeInfos |-> <<>>]
  /\ ret' = Ret("Commit", 0, "running")
  /\ crashed' = NoCrash
  /\ UNCHANGED <<probe, trace, pruning, trees, height, db, lastCommitID, storesParams, stores, keysByName,
                 committed, run>>

\* commitStores, one iteration of the loop over the store map.
CommitStore(key, h) ==
  /\ pc = "commit"
  /\ key \in frame.todo
  /\ IF ~ShouldCommitStore(Name(key))
     THEN /\ frame' = [frame EXCEPT !.todo = @ \ {key}]
          /\ UNCHANGED <<stores, trees>>
     ELSE LET versioned ==
                IF ShouldSetStoreVersion(Name(key))
                THEN StoreSetVersion(stores[key], frame.version - 1)
                ELSE stores[key]
              after == StoreCommit(versioned, h)
          IN  /\ stores' = [stores EXCEPT ![key] = after]
              /\ trees' =
                   IF after.typ = "IAVL"
                   THEN (after.db :>
                           PrunedTree(TreeVersions(after.db),
                                      after.id.Version, after.pruning))
                        @@ trees
                   ELSE trees
              /\ frame' =
                   [frame EXCEPT
                      !.todo = @ \ {key},
                      !.storeInfos =
                        IF after.typ = "Transient" THEN @
                        ELSE Append(@, NewStoreInfo(key, after.id))]
  /\ UNCHANGED <<probe, trace, pruning, height, db, lastCommitID, storesParams, keysByName, pc, ret,
                 committed, run, crashed>>

\* A mutation of CommitBatch: the pointer is left out of the batch.
CommitBatch_noPointer(version, commitInfo) ==
  setCommitInfo(<<>>, version, commitInfo)
\* The batch of Commit(): the CommitInfo record, then the pointer.
CommitBatch(version, commitInfo) ==
  setLatestVersion(setCommitInfo(<<>>, version, commitInfo), version)

\* Commit(), after commitStores: the batch is written, lastCommitID is set
\* and the CommitID is returned.
CommitWrite ==
  /\ pc = "commit"
  /\ frame.todo = {}
  /\ LET commitInfo == [Version |-> frame.version,
                        StoreInfos |-> frame.storeInfos]
         commitID == [Version |-> frame.version, Hash |-> Hash(commitInfo)]
     IN  /\ db' = batchWrite(db, CommitBatch(frame.version, commitInfo))
         /\ lastCommitID' = commitID
         /\ ret' = [Ret("Commit", 0, "ok") EXCEPT !.id = commitID]
         /\ committed' = [id |-> commitID, bep171 |-> IsUpgradeBEP171]
  /\ pc' = "idle"
  /\ frame' = NoFrame
  /\ run' = [run EXCEPT !.n = @ + 1]
  /\ UNCHANGED <<probe, trace, pruning, trees, height, storesParams, stores, keysByName, crashed>>

(***************************************************************************)
(* The environment: the process dies and a new one opens the same          *)
(* database; the chain height advances between blocks.                     *)
(***************************************************************************)
\* The process stops (a crash, or the abort that follows a panic) and
\* NewCommitMultiStore(db) is called by its successor, which starts with no
\* mounts and the zero pruning strategy. When the process stops inside
\* Commit(), before the batch is written, crashed records how many
\* substores had committed.
CrashRestart ==
  /\ lastCommitID' = ZeroCommitID
  /\ storesParams' = <<>>
  /\ stores' = <<>>
  /\ keysByName' = <<>>
  /\ pc' = "idle"
  /\ frame' = NoFrame
  /\ run' = [v0 |-> 0, n |-> 0, loaded |-> FALSE]
  /\ ret' = Ret("New", 0, "ok")
  /\ crashed' = IF pc = "commit"
                THEN [inCommit |-> TRUE,
                      visited |-> Cardinality(DOMAIN stores \ frame.todo)]
                ELSE NoCrash
  /\ trace' = NoTrace
  /\ pruning' = PruneSyncable
  /\ UNCHANGED <<probe, trees, height, db, committed>>

\* rs.SetPruning(strategy)
SetPruning(strategy) ==
  /\ pc = "idle"
  /\ pruning' = strategy
  /\ stores' = [key \in DOMAIN stores |->
                  StoreSetPruning(stores[key], strategy)]
  /\ ret' = Ret("SetPruning", 0, "ok")
  /\ UNCHANGED <<probe, trace, trees, height, db, lastCommitID, storesParams,
                 keysByName, pc, frame, committed, run, crashed>>

\* UpgradeMgr.SetHeight(height + 1), at the start of a block.
SetHeight ==
  /\ pc = "idle"
  /\ height < MaxHeight
  /\ height' = height + 1
  /\ ret' = Ret("SetHeight", 0, "ok")
  /\ UNCHANGED <<probe, trace, pruning, trees, db, lastCommitID, storesParams, stores, keysByName, pc,
                 frame, committed, run, crashed>>

Next ==
  \/ \E key \in StoreKeys \cup {NilKey}, args \in MountArgs :
       MountStoreWithDB(key, args[1], args[2])
  \/ \E ver \in 0..MaxVersion : LoadVersion(ver)
  \/ LoadLatestVersion
  \/ CommitBegin
  \/ \E key \in StoreKeys, h \in SubHashes : CommitStore(key, h)
  \/ CommitWrite
  \/ CrashRestart
  \/ SetHeight

\* The program of an application that leaves the pruning strategy at its
\* zero value.
Spec == Init /\ [][Next]_vars

\* The store types loadCommitStoreFromParams has a constructor for.
LoadableTypes == {"IAVL", "Transient"}

NextPruning ==
  \/ \E key \in {"ka", "kb", NilKey}, typ \in LoadableTypes :
       MountStoreWithDB(key, typ, NilDB)
  \/ \E ver \in 0..MaxVersion : LoadVersion(ver)
  \/ LoadLatestVersion
  \/ CommitBegin
  \/ \E key \in StoreKeys, h \in SubHashes : CommitStore(key, h)
  \/ CommitWrite
  \/ CrashRestart
  \/ SetHeight
  \/ \E strategy \in PruningStrategies : SetPruning(strategy)

\* The program of an application that sets the pruning strategy.
SpecPruning == Init /\ [][NextPruning]_vars

(***************************************************************************)
(* Query. A path is a sequence of tokens: "/" or a piece without "/".      *)
(***************************************************************************)
\* The concatenation of the tokens of a path.
RECURSIVE Join(_)
Join(toks) == IF toks = <<>> THEN "" ELSE toks[1] \o Join(Tail(toks))

\* The index of the first "/" of toks, or 0.
FirstSlash(toks) ==
  IF \E i \in 1..Len(toks) : toks[i] = "/"
  THEN CHOOSE i \in 1..Len(toks) :
         toks[i] = "/" /\ \A j \in 1..(i - 1) : toks[j] # "/"
  ELSE 0

\* A mutation of parsePath: a path without the leading "/" is accepted.
parsePath_lenient(path) ==
  LET rest == IF path # <<>> /\ path[1] = "/" THEN Tail(path) ELSE path
      cut == FirstSlash(rest)
  IN  IF cut = 0
      THEN [err |-> FALSE, storeName |-> Join(rest), subpath |-> ""]
      ELSE [err |-> FALSE, storeName |-> Join(SubSeq(rest, 1, cut - 1)),
            subpath |-> "/" \o Join(SubSeq(rest, cut + 1, Len(rest)))]
\* parsePath(path): strings.SplitN(path[1:], "/", 2)
parsePath(path) ==
  IF ~(path # <<>> /\ path[1] = "/")
  THEN [err |-> TRUE, storeName |-> "", subpath |-> ""]
  ELSE LET rest == Tail(path)
           cut == FirstSlash(rest)
       IN  IF cut = 0
           THEN [err |-> FALSE, storeName |-> Join(rest), subpath |-> ""]
           ELSE [err |-> FALSE,
                 storeName |-> Join(SubSeq(rest, 1, cut - 1)),
                 subpath |-> "/" \o Join(SubSeq(rest, cut + 1, Len(rest)))]

\* A mutation of getStoreByName: some live store, whatever its name.
getStoreByName_anyLive(name) ==
  IF DOMAIN stores = {} THEN NilKey ELSE CHOOSE key \in DOMAIN stores : TRUE
\* rs.getStoreByName(name): the key of the live store, or NilKey for nil.
getStoreByName(name) ==
  IF name \notin DOMAIN keysByName THEN NilKey
  ELSE IF keysByName[name] \notin DOMAIN stores THEN NilKey
  ELSE keysByName[name]

\* store.(Queryable): an IAVL store answers queries, a transient store
\* does not.
IsQueryable(store) == store.typ = "IAVL"
\* sdk.RequireProof(subpath)
RequireProof(subpath) == subpath \in {"/store", "/key", "/ics23-key"}

\* queryable.Query(req) of a substore: a response at the height the store
\* chose, with the store's own proof op when a proof was asked for.
SubstoreQuery(req, resHeight) ==
  [code |-> "ok", log |-> "", height |-> resHeight,
   ops |-> IF req.prove
           THEN <<[panic |-> FALSE, type |-> "iavl:v", key |-> req.data,
                   exist |-> NoExist, infos |-> <<>>]>>
           ELSE <<>>]

\* A request that was not forwarded.
NoRequest == [path |-> "", data |-> "", height |-> 0, prove |-> FALSE]
\* err.QueryResult() of sdk.ErrUnknownRequest(msg) and sdk.ErrInternal(msg).
FailureResponse(code, log) ==
  [panic |-> FALSE, code |-> code, log |-> log, height |-> 0, ops |-> <<>>,
   store |-> NilKey, sent |-> NoRequest]

\* rs.Query(req), where the substore answers at resHeight: the response,
\* the store the request was forwarded to and the request it was sent.
QueryResponse(req, resHeight) ==
  LET parsed == parsePath(req.path)
      key == getStoreByName(parsed.storeName)
      sent == [path |-> parsed.subpath, data |-> req.data,
               height |-> req.height, prove |-> req.prove]
      res == SubstoreQuery(sent, resHeight)
      got == getCommitInfo(db, res.height)
      answer == [panic |-> FALSE, code |-> res.code, log |-> res.log,
                 height |-> res.height, ops |-> res.ops, store |-> key,
                 sent |-> sent]
  IN  IF parsed.err THEN FailureResponse("UnknownRequest", "invalid path")
      ELSE IF key = NilKey
      THEN FailureResponse("UnknownRequest", "no such store")
      ELSE IF ~IsQueryable(stores[key])
      THEN FailureResponse("UnknownRequest", "doesn't support queries")
      ELSE IF ~sent.prove \/ ~RequireProof(parsed.subpath) THEN answer
      ELSE IF got.err
      THEN [FailureResponse("InternalError", got.msg) EXCEPT
              !.store = key, !.sent = sent]
      ELSE IF parsed.subpath = "/ics23-key"
      THEN IF ProofOp(got.cInfo, parsed.storeName).panic
           THEN [answer EXCEPT !.panic = TRUE]
           ELSE [answer EXCEPT
                   !.ops = Append(@, ProofOp(got.cInfo, parsed.storeName))]
      ELSE [answer EXCEPT
              !.ops = Append(@, MultiStoreProofOp(parsed.storeName,
                                                  got.cInfo.StoreInfos))]

\* abci.RequestQuery{Path, Data, Height, Prove}
Request(path, data, h, prove) ==
  [path |-> path, data |-> data, height |-> h, prove |-> prove]
\* The requests made: no path, no leading "/", an empty store name, an
\* unknown store, a store alone, and subpaths with and without a proof.
Requests ==
  {Request(<<>>, "k", 0, FALSE),
   Request(<<"a", "/", "key">>, "k", 1, TRUE),
   Request(<<"/">>, "k", 0, TRUE),
   Request(<<"/", "x", "/", "key">>, "k", 1, TRUE),
   Request(<<"/", "a">>, "k", 1, TRUE),
   Request(<<"/", "a", "/", "key">>, "k", 1, TRUE),
   Request(<<"/", "a", "/", "key">>, "j", 0, FALSE),
   Request(<<"/", "b", "/", "ics23-key">>, "k", 0, TRUE),
   Request(<<"/", "b", "/", "subspace", "/", "x">>, "j", 1, TRUE)}
\* The heights a substore answers at.
ResponseHeights == 1..MaxVersion

\* rs.Query(req)
Query(req, resHeight) ==
  /\ pc = "idle"
  /\ LET res == QueryResponse(req, resHeight)
     IN  IF res.panic
         THEN /\ pc' = "panic"
              /\ ret' = Ret("Query", 0, "panic")
         ELSE /\ pc' = "idle"
              /\ ret' = [Ret("Query", 0, res.code) EXCEPT !.log = res.log]
  /\ crashed' = NoCrash
  /\ UNCHANGED <<probe, trace, pruning, trees, height, db, lastCommitID, storesParams, stores, keysByName,
                 frame, committed, run>>

NextQuery ==
  \/ \E key \in StoreKeys \cup {NilKey}, typ \in LoadableTypes :
       MountStoreWithDB(key, typ, NilDB)
  \/ \E ver \in 0..MaxVersion : LoadVersion(ver)
  \/ LoadLatestVersion
  \/ CommitBegin
  \/ \E key \in StoreKeys, h \in SubHashes : CommitStore(key, h)
  \/ CommitWrite
  \/ CrashRestart
  \/ SetHeight
  \/ /\ ret.op # "Query"
     /\ \E req \in Requests, resHeight \in ResponseHeights :
          Query(req, resHeight)

\* The program with its queries. Query changes no field of the multi-store,
\* so a query made right after another reaches the states the first one
\* reaches from the same multi-store; the relation takes them from the
\* states that other calls leave.
SpecQuery == Init /\ [][NextQuery]_vars

\* A fault of the storage medium: one record of the database is replaced by
\* bytes the codec does not decode (one damaged record at a time).
CorruptRecord(key) ==
  /\ pc = "idle"
  /\ key \in DOMAIN db
  /\ \A k \in DOMAIN db : db[k] # GarbageBytes
  /\ db' = [db EXCEPT ![key] = GarbageBytes]
  /\ ret' = Ret("CorruptRecord", 0, "ok")
  /\ crashed' = NoCrash
  /\ UNCHANGED <<probe, trace, pruning, trees, height, lastCommitID, storesParams, stores, keysByName, pc,
                 frame, committed, run>>

NextFault ==
  \/ \E key \in StoreKeys \cup {NilKey}, typ \in LoadableTypes :
       MountStoreWithDB(key, typ, NilDB)
  \/ \E ver \in 0..MaxVersion : LoadVersion(ver)
  \/ LoadLatestVersion
  \/ CommitBegin
  \/ \E key \in StoreKeys, h \in SubHashes : CommitStore(key, h)
  \/ CommitWrite
  \/ CrashRestart
  \/ SetHeight
  \/ \E key \in {latestVersionKey} \cup {CommitInfoKey(v) : v \in 1..MaxVersion} :
       CorruptRecord(key)

\* The program over a database whose records can be damaged.
SpecFault == Init /\ [][NextFault]_vars

(***************************************************************************)
(* Tracing.                                                                *)
(***************************************************************************)
\* The io.Writers given to WithTracer.
Writers == {"w1", "w2"}
\* The keys and the values of the TraceContexts given to WithTracingContext.
TraceKeys == {"k1", "k2"}
TraceValues == {"v1", "v2"}
\* The TraceContext arguments: nil, and every map over the keys.
TraceContexts ==
  {NilContext} \cup
  {[nil |-> FALSE, m |-> f] :
     f \in UNION {[D -> TraceValues] : D \in SUBSET TraceKeys}}

\* rs.WithTracer(w)
WithTracer(w) ==
  /\ pc = "idle"
  /\ trace' = [trace EXCEPT !.writer = w]
  /\ ret' = Ret("WithTracer", 0, "ok")
  /\ UNCHANGED <<probe, pruning, trees, height, db, lastCommitID, storesParams, stores,
                 keysByName, pc, frame, committed, run, crashed>>

\* A mutation of MergeContext: the new context replaces the old one.
MergeContext_replace(old, tc) == tc
\* The body of WithTracingContext: each key of tc is written into a context
\* that is not nil; a nil context becomes tc.
MergeContext(old, tc) ==
  IF ~old.nil THEN [nil |-> FALSE, m |-> tc.m @@ old.m] ELSE tc

\* rs.WithTracingContext(tc)
WithTracingContext(tc) ==
  /\ pc = "idle"
  /\ trace' = [trace EXCEPT !.context = MergeContext(trace.context, tc),
                            !.arg = tc]
  /\ ret' = Ret("WithTracingContext", 0, "ok")
  /\ UNCHANGED <<probe, pruning, trees, height, db, lastCommitID, storesParams, stores,
                 keysByName, pc, frame, committed, run, crashed>>

\* rs.ResetTraceContext()
ResetTraceContext ==
  /\ pc = "idle"
  /\ trace' = [trace EXCEPT !.context = NilContext]
  /\ ret' = Ret("ResetTraceContext", 0, "ok")
  /\ UNCHANGED <<probe, pruning, trees, height, db, lastCommitID, storesParams, stores,
                 keysByName, pc, frame, committed, run, crashed>>

\* rs.TracingEnabled()
TracingEnabled == trace.writer # NilWriter

\* rs.GetKVStore(key): the type assertion on a store that is not live
\* panics.
GetKVStore(key) ==
  /\ pc = "idle"
  /\ IF key \notin DOMAIN stores
     THEN /\ pc' = "panic"
          /\ ret' = Ret("GetKVStore", 0, "panic")
          /\ UNCHANGED trace
     ELSE /\ pc' = "idle"
          /\ ret' = Ret("GetKVStore", 0, "ok")
          /\ trace' =
               [trace EXCEPT !.got =
                  IF TracingEnabled
                  THEN [wrapped |-> TRUE, store |-> key,
                        writer |-> trace.writer, context |-> trace.context]
                  ELSE PlainStore(key)]
  /\ UNCHANGED <<probe, pruning, trees, height, db, lastCommitID, storesParams, stores,
                 keysByName, frame, committed, run, crashed>>

NextTrace ==
  \/ \E key \in StoreKeys, typ \in {"IAVL", "Transient"} :
       MountStoreWithDB(key, typ, NilDB)
  \/ \E ver \in {0} : LoadVersion(ver)
  \/ \E w \in Writers \cup {NilWriter} : WithTracer(w)
  \/ \E tc \in TraceContexts : WithTracingContext(tc)
  \/ ResetTraceContext
  \/ \E key \in StoreKeys : GetKVStore(key)

\* Mounting, loading and tracing.
SpecTrace == Init /\ [][NextTrace]_vars

(***************************************************************************)
(* Mounts over explicit database handles.                                  *)
(***************************************************************************)
\* The db arguments of MountStoreWithDB: nil, a database of its own, and the
\* database the multi-store itself was built on.
DBHandles == {NilDB, "d1", RootDB}
\* The (typ, db) arguments over those handles.
MountArgsDB == {<<typ, dbh>> : typ \in StoreTypes, dbh \in DBHandles}
\* The key of the underlying database that a prefix database keeps the
\* store's key k under.
PartitionKey(pdb, k) == pdb.prefix \o k

NextPartition ==
  \/ \E key \in StoreKeys \cup {NilKey}, args \in MountArgsDB :
       MountStoreWithDB(key, args[1], args[2])
  \/ \E ver \in {0} : LoadVersion(ver)
  \/ LoadLatestVersion
  \/ CrashRestart

\* Mounting and loading over shared and explicit database handles.
SpecPartition == Init /\ [][NextPartition]_vars

(***************************************************************************)
(* The hash and the proof of a CommitInfo, as functions of their inputs.   *)
(***************************************************************************)
\* At most this many StoreInfos in a CommitInfo given to the functions.
MaxInfos == 3

\* The StoreInfos a commit can record: a name, and the CommitID of a store
\* that has committed.
StoreInfoValues ==
  {[Name |-> n, Core |-> [CommitID |-> [Version |-> v, Hash |-> h]]] :
     n \in StoreNames, v \in 1..MaxVersion, h \in SubHashes \cup {"h0"}}
\* The StoreInfos slices of at most len entries that commitStores can
\* build: one entry per store, so no name twice, in any order.
RECURSIVE StoreInfoSeqs(_)
StoreInfoSeqs(len) ==
  IF len = 0 THEN {<<>>}
  ELSE LET shorter == StoreInfoSeqs(len - 1)
       IN  shorter \cup
           UNION {{Append(q, si) :
                     si \in {x \in StoreInfoValues : x.Name \notin InfoNames(q)}} :
                  q \in {x \in shorter : Len(x) = len - 1}}

\* A CommitInfo and a store name are chosen, at some chain height.
InitProbe ==
  /\ height \in 0..MaxHeight
  /\ \E infos \in StoreInfoSeqs(MaxInfos),
        name \in StoreNames, v \in 1..MaxVersion :
       probe = [NoProbe EXCEPT
                  !.ci = [Version |-> v, StoreInfos |-> infos],
                  !.name = name]
  /\ trace = NoTrace
  /\ pruning = PruneSyncable
  /\ trees = <<>>
  /\ db = <<>>
  /\ lastCommitID = ZeroCommitID
  /\ storesParams = <<>>
  /\ stores = <<>>
  /\ keysByName = <<>>
  /\ pc = "idle"
  /\ frame = NoFrame
  /\ ret = Ret("New", 0, "ok")
  /\ committed = [id |-> ZeroCommitID, bep171 |-> FALSE]
  /\ run = [v0 |-> 0, n |-> 0, loaded |-> FALSE]
  /\ crashed = NoCrash

\* ci.Hash()
ApplyHash ==
  /\ probe.applied = ""
  /\ probe' = [probe EXCEPT !.applied = "Hash", !.hash = Hash(probe.ci)]
  /\ UNCHANGED <<trace, pruning, trees, height, db, lastCommitID, storesParams, stores,
                 keysByName, pc, frame, ret, committed, run, crashed>>

\* ci.ProofOp(name): a panic is the end of the process.
ApplyProofOp ==
  /\ probe.applied = ""
  /\ probe' = [probe EXCEPT !.applied = "ProofOp",
                            !.op = ProofOp(probe.ci, probe.name)]
  /\ pc' = IF ProofOp(probe.ci, probe.name).panic THEN "panic" ELSE pc
  /\ UNCHANGED <<trace, pruning, trees, height, db, lastCommitID, storesParams, stores,
                 keysByName, frame, ret, committed, run, crashed>>

NextProbe == ApplyHash \/ ApplyProofOp

\* The hash and proof functions over every CommitInfo of the bounds.
SpecProbe == InitProbe /\ [][NextProbe]_vars

(***************************************************************************)
(* Properties.                                                             *)
(***************************************************************************)
\* The load calls.
LoadOps == {"LoadVersion", "LoadLatestVersion"}
\* The CommitInfo record of version v is set, decodes and carries Version v.
Loadable(d, v) ==
  /\ ~getCommitInfo(d, v).err
  /\ getCommitInfo(d, v).cInfo.Version = v

\* C1, part: n Commit() calls after a load at v0 leave LastCommitID at
\* version v0 + n, and every version in between has its CommitInfo record
\* under "s/<v>", readable and carrying Version v.
C1_VersionsSinceLoad ==
  pc = "idle" =>
    /\ lastCommitID.Version = run.v0 + run.n
    /\ \A v \in (run.v0 + 1)..(run.v0 + run.n) : Loadable(db, v)
\* C1, part: the CommitID a Commit() returns has the previous version plus
\* one, and is the new LastCommitID.
C1_CommitStep ==
  (ret'.op = "Commit" /\ ret'.result = "ok") =>
    /\ ret'.id.Version = lastCommitID.Version + 1
    /\ lastCommitID' = ret'.id
\* C1: commit monotonicity.
C1_CommitMonotonic == [](C1_VersionsSinceLoad) /\ [][C1_CommitStep]_vars
\* Two commits in a row on an instance loaded at version 0.
C1_Witness == run.n = 2 /\ run.v0 = 0 /\ ret.op = "Commit" /\ ret.result = "ok"

\* C2, part: whenever "s/latest" holds v > 0, "s/<v>" holds a CommitInfo of
\* Version v.
C2_PointerHasRecord ==
  /\ ~getLatestVersion(db).panic
  /\ getLatestVersion(db).ver > 0 => Loadable(db, getLatestVersion(db).ver)
\* C2, part: a step that changes the database changes the pointer and the
\* record it points to together, and nothing else.
C2_WrittenTogether ==
  db' # db =>
    LET v == getLatestVersion(db').ver
    IN  /\ dbGet(db', latestVersionKey) = MarshalInt64(v)
        /\ v = lastCommitID.Version + 1
        /\ Loadable(db', v)
        /\ \A k \in DOMAIN db :
             k \notin {latestVersionKey, CommitInfoKey(v)} =>
               (k \in DOMAIN db' /\ db'[k] = db[k])
        /\ DOMAIN db' = DOMAIN db \cup {latestVersionKey, CommitInfoKey(v)}
\* C2: the CommitInfo record and the pointer are written as one step.
C2_CommitAtomic == [](C2_PointerHasRecord) /\ [][C2_WrittenTogether]_vars
\* A process died inside the Commit() of version 3 or of a rewritten
\* version, after two versions were committed.
C2_Witness ==
  /\ crashed.inCommit
  /\ getLatestVersion(db).ver = 2
  /\ Loadable(db, 1) /\ Loadable(db, 2)

\* Every mounted store can be instantiated: IAVL, or Transient under a
\* TransientStoreKey.
AllInstantiable == FailingKeys(<<>>) = {}
\* Every mounted store is an IAVL store.
AllIAVL == \A key \in DOMAIN storesParams : storesParams[key].typ = "IAVL"
\* Every store named in the CommitInfo that "s/latest" points to is mounted.
LatestNamesMounted ==
  LET v == getLatestVersion(db).ver
  IN  v > 0 =>
        \A n \in InfoNames(getCommitInfo(db, v).cInfo.StoreInfos) :
          HasKeyNamed(n)

\* C3, as stated, for the restarts that mount IAVL stores only, among them
\* every store the latest CommitInfo names, at a chain height where the
\* BEP171 switch reads as it did at the last completed Commit(): after a
\* crash inside Commit(), before the batch write, and a restart that mounts
\* such stores, LoadLatestVersion succeeds and LastCommitID is what the last
\* completed Commit() returned.
C3_Original ==
  (/\ ret.op = "LoadLatestVersion" /\ ret.recovery >= 0
   /\ AllIAVL /\ LatestNamesMounted
   /\ committed.bep171 = IsUpgradeBEP171) =>
    (ret.result = "ok" /\ lastCommitID = committed.id)

\* C4, as stated: LoadVersion(v) right after the Commit() that produced v
\* succeeds and restores the CommitID that Commit() returned.
C4_Original ==
  [][(/\ ret.op = "Commit" /\ ret.result = "ok"
      /\ ret'.op = "LoadVersion" /\ ret'.ver = ret.id.Version) =>
       (ret'.result = "ok" /\ lastCommitID' = ret.id)]_vars
\* C4, amended: the same, when every mounted store can be instantiated.
C4_RoundTrip ==
  [][(/\ ret.op = "Commit" /\ ret.result = "ok"
      /\ ret'.op = "LoadVersion" /\ ret'.ver = ret.id.Version
      /\ AllInstantiable) =>
       (ret'.result = "ok" /\ lastCommitID' = ret.id)]_vars
\* A LoadVersion(2) that succeeded on two live stores right after the
\* Commit() of version 2 (lastCommitID is what that Commit() returned).
C4_Witness ==
  /\ ret.op = "LoadVersion" /\ ret.ver = 2 /\ ret.result = "ok"
  /\ lastCommitID = committed.id
  /\ Cardinality(DOMAIN stores) = 2
  /\ Len(getCommitInfo(db, 2).cInfo.StoreInfos) = 2

\* C5: a load that takes the version-0 branch and returns nil leaves every
\* mounted store live with the zero CommitID and LastCommitID zero, whatever
\* the database holds; and LoadLatestVersion takes that branch exactly when
\* "s/latest" is not set.
C5_GenesisPath ==
  /\ (ret.op \in LoadOps /\ ret.ver = 0 /\ ret.result = "ok") =>
       /\ lastCommitID = ZeroCommitID
       /\ DOMAIN stores = DOMAIN storesParams
       /\ \A key \in DOMAIN stores : stores[key].id = ZeroCommitID
  /\ ret.op = "LoadLatestVersion" =>
       (ret.ver = 0 <=> latestVersionKey \notin DOMAIN db)
\* LoadVersion(0) returned nil over a database that holds two versions with
\* non-empty manifests.
C5_Witness ==
  /\ ret.op = "LoadVersion" /\ ret.ver = 0 /\ ret.result = "ok"
  /\ getLatestVersion(db).ver = 2
  /\ Len(getCommitInfo(db, 2).cInfo.StoreInfos) >= 1
  /\ DOMAIN stores # {}

\* C6: a load that returns an error leaves the live store map and
\* lastCommitID as they were.
C6_AllOrNothing ==
  [][(ret'.op \in LoadOps /\ ret'.result = "error") =>
       (stores' = stores /\ lastCommitID' = lastCommitID)]_vars

\* The persisted data a load of version ver meets is faulty: the pointer
\* does not decode (LoadLatestVersion), or the CommitInfo record of ver is
\* missing or does not decode, or it names a store that is not mounted.
PersistedDataFault(op, ver) ==
  \/ op = "LoadLatestVersion" /\ getLatestVersion(db).panic
  \/ /\ ver > 0
     /\ \/ getCommitInfo(db, ver).err
        \/ \E n \in InfoNames(getCommitInfo(db, ver).cInfo.StoreInfos) :
             ~HasKeyNamed(n)
\* C7: a load that meets faulty persisted data returns an error, does not
\* abort the process, and leaves the live store map and lastCommitID as
\* they were.
C7_LoadFailuresRecoverable ==
  [][(ret'.op \in LoadOps /\ PersistedDataFault(ret'.op, ret'.ver)) =>
       /\ ret'.result = "error"
       /\ pc' # "panic"
       /\ stores' = stores
       /\ lastCommitID' = lastCommitID]_vars

\* C8, part: no two mounted keys share a name, and the name index maps each
\* mounted name to the key mounted under it.
C8_NameIndex ==
  /\ \A k1, k2 \in DOMAIN storesParams : Name(k1) = Name(k2) => k1 = k2
  /\ DOMAIN keysByName = {Name(k) : k \in DOMAIN storesParams}
  /\ \A k \in DOMAIN storesParams :
       keysByName[Name(k)] = k /\ storesParams[k].key = k
\* C8, part: a mount of a nil key, of a mounted key or of a key whose name
\* is mounted is rejected, and a rejected mount changes neither the mount
\* configuration nor the name index.
C8_MountStep ==
  ret'.op = "MountStoreWithDB" =>
    /\ ret'.result \in {"ok", "panic"}
    /\ ret'.result = "panic" =>
         (storesParams' = storesParams /\ keysByName' = keysByName)
    /\ ret'.result = "ok" =>
         \E key \in StoreKeys :
           /\ key \notin DOMAIN storesParams
           /\ \A k \in DOMAIN storesParams : Name(k) # Name(key)
           /\ DOMAIN storesParams' = DOMAIN storesParams \cup {key}
           /\ \A k \in DOMAIN storesParams : storesParams'[k] = storesParams[k]
\* C8: mount collisions.
C8_MountCollision == [](C8_NameIndex) /\ [][C8_MountStep]_vars
\* A mount was rejected on an instance that holds two mounts.
C8_Witness ==
  /\ ret.op = "MountStoreWithDB" /\ ret.result = "panic"
  /\ Cardinality(DOMAIN storesParams) = 2

\* C9, part: what rs.Query answers a request whose path does not start with
\* "/", or names no live store, or names a store that does not answer
\* queries: an "unknown request" failure, nothing forwarded, no panic.
C9_Rejected(req, resHeight) ==
  LET res == QueryResponse(req, resHeight)
      name == IF Len(req.path) >= 2 /\ req.path[2] # "/" THEN req.path[2]
              ELSE ""
      live == \E key \in DOMAIN stores : Name(key) = name
      queryable ==
        \E key \in DOMAIN stores : Name(key) = name /\ stores[key].typ = "IAVL"
  IN  (\/ req.path = <<>>
       \/ req.path[1] # "/"
       \/ ~live
       \/ ~queryable) =>
        /\ ~res.panic
        /\ res.code = "UnknownRequest"
        /\ res.store = NilKey
        /\ res.sent = NoRequest
        /\ res.ops = <<>>
\* C9: query rejection, in every state of the multi-store and for every
\* request; and the Query call returns what QueryResponse says.
C9_QueryRejection ==
  /\ pc = "idle" =>
       \A req \in Requests, resHeight \in ResponseHeights :
         C9_Rejected(req, resHeight)
  /\ (ret.op = "Query" /\ ret.log # "") =>
       (\/ ret.result = "UnknownRequest"
        \/ ret.log = "failed to get rootMultiStore: no data")
\* A query was rejected because its store does not answer queries, on an
\* instance that holds a live transient store and a mount made after the
\* load.
C9_Witness ==
  /\ ret.op = "Query" /\ ret.result = "UnknownRequest"
  /\ ret.log = "doesn't support queries"
  /\ \E key \in DOMAIN stores : stores[key].typ = "Transient"
  /\ DOMAIN storesParams # DOMAIN stores

\* The StoreInfo a CommitInfo records under a name.
InfoOf(ci, name) == ci.StoreInfos[LastIndexOf(ci.StoreInfos, name)]

\* C10, as stated: the existence proof ProofOp builds for a name of a
\* CommitInfo carries the per-store hash the CommitInfo records for that
\* name, and commits to Hash(CommitInfo); toMap is the map Hash hashes.
C10_Original ==
  (probe.applied = "ProofOp" /\ probe.name \in InfoNames(probe.ci.StoreInfos)) =>
    /\ ~probe.op.panic
    /\ probe.op.exist.Key = probe.name
    /\ probe.op.exist.Value = InfoOf(probe.ci, probe.name).Core.CommitID.Hash
    /\ ExistenceProofRoot(probe.op.exist) = Hash(probe.ci)
    /\ toMap(probe.ci) = HashMap(probe.ci)
\* C10, amended: the leaf value is the recorded hash once BEP171 is active,
\* and the hash of the store's encoded core (version and hash) before; the
\* proof commits to Hash(CommitInfo) and toMap is the map Hash hashes, on
\* either side.
C10_ProofValidity ==
  (probe.applied = "ProofOp" /\ probe.name \in InfoNames(probe.ci.StoreInfos)) =>
    /\ ~probe.op.panic
    /\ probe.op.exist.Key = probe.name
    /\ probe.op.exist.Value =
         IF IsUpgradeBEP171
         THEN InfoOf(probe.ci, probe.name).Core.CommitID.Hash
         ELSE tmhash(MarshalCore(InfoOf(probe.ci, probe.name).Core))
    /\ ExistenceProofRoot(probe.op.exist) = Hash(probe.ci)
    /\ toMap(probe.ci) = HashMap(probe.ci)
\* A proof for the last of three stores, before the upgrade.
C10_Witness ==
  /\ probe.applied = "ProofOp" /\ ~probe.op.panic
  /\ Len(probe.ci.StoreInfos) = 3 /\ probe.name = "c"
  /\ ~IsUpgradeBEP171
  /\ Len(probe.op.exist.Path) = 1

\* The orderings of a StoreInfos slice: the slices of the same length that
\* hold the same entries.
Orderings(infos) ==
  {q \in [1..Len(infos) -> {infos[i] : i \in 1..Len(infos)}] :
     {q[i] : i \in 1..Len(infos)} = {infos[i] : i \in 1..Len(infos)}}

\* C11: the hash of a CommitInfo that commitStores can build is the hash of
\* every CommitInfo that holds the same StoreInfos in another order, so the
\* CommitID of a Commit() does not depend on the order of the visit.
C11_OrderIndependence ==
  probe.applied = "Hash" =>
    \A q \in Orderings(probe.ci.StoreInfos) :
      /\ Hash([probe.ci EXCEPT !.StoreInfos = q]) = probe.hash
      /\ CommitID([probe.ci EXCEPT !.StoreInfos = q]) =
           [Version |-> probe.ci.Version, Hash |-> probe.hash]
\* The hash of three stores recorded in the order c, a, b, with a hash that
\* is not the hash of no store.
C11_Witness ==
  /\ probe.applied = "Hash"
  /\ Len(probe.ci.StoreInfos) = 3
  /\ probe.ci.StoreInfos[1].Name = "c" /\ probe.ci.StoreInfos[2].Name = "a"
  /\ probe.hash # Hash([probe.ci EXCEPT !.StoreInfos = <<>>])

\* C12: once a load has been called on an instance, no step of that
\* instance changes the mount configuration or the name index.
C12_MountFrozen ==
  [][(run.loaded /\ ret'.op # "New") =>
       (storesParams' = storesParams /\ keysByName' = keysByName)]_vars

\* The store types loadCommitStoreFromParams has no store for.
UnsupportedTypes == {"Multi", "DB"}
\* C13: no mount configuration holds an entry of type Multi or DB, and no
\* load meets one.
C13_UnsupportedRejected ==
  /\ \A key \in DOMAIN storesParams :
       storesParams[key].typ \notin UnsupportedTypes
  /\ (ret.op \in LoadOps /\ ret.result = "panic") =>
       \A key \in DOMAIN storesParams :
         storesParams[key].typ \notin UnsupportedTypes

\* The live stores a Commit() records: those the commit policy admits and
\* whose type is not Transient.
Participants ==
  {key \in DOMAIN stores :
     ShouldCommitStore(Name(key)) /\ stores[key].typ # "Transient"}
\* C14: the CommitInfo a Commit() of version v persists has Version v and
\* exactly one StoreInfo per participating live store, under the store's
\* name and with the CommitID the store's own Commit() returned; it has no
\* other entry and no name twice.
C14_ManifestShape ==
  [][(ret'.op = "Commit" /\ ret'.result = "ok") =>
       LET v == ret'.id.Version
           ci == getCommitInfo(db', v).cInfo
       IN  /\ ~getCommitInfo(db', v).err
           /\ v = lastCommitID.Version + 1
           /\ ci.Version = v
           /\ InfoNames(ci.StoreInfos) = {Name(key) : key \in Participants}
           /\ Len(ci.StoreInfos) = Cardinality(Participants)
           /\ \A i, j \in 1..Len(ci.StoreInfos) :
                ci.StoreInfos[i].Name = ci.StoreInfos[j].Name => i = j
           /\ \A key \in Participants :
                /\ InfoOf(ci, Name(key)).Core.CommitID = stores[key].id
                /\ stores[key].id.Version >= 1]_vars
\* The second Commit() on a live transient store and a live IAVL store
\* returned, and its CommitInfo holds the IAVL store alone.
C14_Witness ==
  /\ ret.op = "Commit" /\ ret.result = "ok" /\ ret.id.Version = 2
  /\ DOMAIN stores = {"kt", "kb"}
  /\ stores["kt"].typ = "Transient" /\ stores["kb"].typ = "IAVL"
  /\ InfoNames(getCommitInfo(db, 2).cInfo.StoreInfos) = {"b"}

\* C15: whenever LastCommitID has version v > 0, the CommitInfo persisted
\* for v has an entry under the name of every live store; and no Query ends
\* in the panic of ProofOp.
C15_ManifestCoverage ==
  /\ (pc = "idle" /\ lastCommitID.Version > 0) =>
       /\ ~getCommitInfo(db, lastCommitID.Version).err
       /\ \A key \in DOMAIN stores :
            Name(key) \in
              InfoNames(getCommitInfo(db, lastCommitID.Version).cInfo.StoreInfos)
  /\ ret.op = "Query" => ret.result # "panic"

\* The first segment of a request path that starts with "/", and what
\* follows it: "/<rest>", or "" when there is no second segment.
FirstSegment(path) == IF Len(path) >= 2 /\ path[2] # "/" THEN path[2] ELSE ""
Remainder(path) ==
  IF Len(path) <= 2 THEN "" ELSE "/" \o Join(SubSeq(path, 4, Len(path)))
\* The request is routed: its path starts with "/" and its first segment
\* names a live store that answers queries.
Routed(req) ==
  /\ req.path # <<>> /\ req.path[1] = "/"
  /\ \E key \in DOMAIN stores :
       Name(key) = FirstSegment(req.path) /\ IsQueryable(stores[key])
\* The request a routed request is forwarded as.
Forwarded(req) ==
  [path |-> Remainder(req.path), data |-> req.data, height |-> req.height,
   prove |-> req.prove]

\* C16, part: what a routed request is answered, given the response sub of
\* the substore: sub itself; or, with a proof asked for and required, sub
\* with one aggregation proof op appended, built from the CommitInfo of the
\* height sub reports; or an internal error when that record cannot be read.
C16_Answer(req, res, sub) ==
  LET name == FirstSegment(req.path)
      got == getCommitInfo(db, sub.height)
      last == res.ops[Len(res.ops)]
  IN  IF ~(req.prove /\ RequireProof(Remainder(req.path)))
      THEN /\ res.code = sub.code /\ res.log = sub.log
           /\ res.height = sub.height /\ res.ops = sub.ops
      ELSE IF got.err
      THEN res.code = "InternalError" /\ res.ops = <<>>
      ELSE /\ res.code = sub.code /\ res.log = sub.log
           /\ res.height = sub.height
           /\ Len(res.ops) = Len(sub.ops) + 1
           /\ SubSeq(res.ops, 1, Len(sub.ops)) = sub.ops
           /\ last.key = name
           /\ IF Remainder(req.path) = "/ics23-key"
              THEN /\ last.type = "ics23:simple"
                   /\ last.exist.Key = name
                   /\ ExistenceProofRoot(last.exist) = Hash(got.cInfo)
              ELSE /\ last.type = "multistore"
                   /\ last.infos = got.cInfo.StoreInfos
\* C16: every routed request is answered so, without a panic, in every
\* state of the multi-store.
C16_ProofAugmentation ==
  pc = "idle" =>
    \A req \in Requests, resHeight \in ResponseHeights :
      Routed(req) =>
        /\ ~QueryResponse(req, resHeight).panic
        /\ C16_Answer(req, QueryResponse(req, resHeight),
                      SubstoreQuery(Forwarded(req), resHeight))

\* C18, part: a routed request is forwarded to the live store mounted under
\* its first segment, with the path replaced by the remainder and the data,
\* the height and the prove flag as they came.
C18_Routing ==
  pc = "idle" =>
    \A req \in Requests, resHeight \in ResponseHeights :
      Routed(req) =>
        /\ QueryResponse(req, resHeight).store \in DOMAIN stores
        /\ Name(QueryResponse(req, resHeight).store) = FirstSegment(req.path)
        /\ QueryResponse(req, resHeight).sent = Forwarded(req)
\* C18, part: a Query changes neither lastCommitID, nor the mount
\* configuration and the name index, nor the live stores, nor the database.
C18_Frame ==
  ret'.op = "Query" =>
    UNCHANGED <<lastCommitID, storesParams, keysByName, stores, db>>
\* C18: query routing and frame.
C18_QueryRouting == [](C18_Routing) /\ [][C18_Frame]_vars
\* A Query was answered on an instance with two live stores that answer
\* queries, after two commits.
C18_Witness ==
  /\ ret.op = "Query" /\ ret.result = "ok"
  /\ DOMAIN stores = {"ka", "kb"}
  /\ stores["ka"].typ = "IAVL" /\ stores["kb"].typ = "IAVL"
  /\ lastCommitID.Version = 2

\* Keys a substore may write, among them keys that look like root records
\* and like other partitions.
SubKeys == {"x", "latest", "1", "k:b/x", "_/x"}
\* The live stores kept in a database (a transient store is kept in a
\* memory of its own).
Persistent == {key \in DOMAIN stores : stores[key].typ = "IAVL"}
\* C17: no key of one live store's partition is a key of another live
\* store's partition in the same database, and no key of a partition of the
\* root database is a root record.
C17_KeyspaceIsolation ==
  /\ \A k1, k2 \in Persistent :
       k1 # k2 =>
         \A x, y \in SubKeys :
           ~(/\ stores[k1].db.handle = stores[k2].db.handle
             /\ PartitionKey(stores[k1].db, x) = PartitionKey(stores[k2].db, y))
  /\ \A k1 \in Persistent :
       stores[k1].db.handle = RootDB =>
         \A x \in SubKeys :
           PartitionKey(stores[k1].db, x) \notin
             {latestVersionKey} \cup {CommitInfoKey(v) : v \in 0..MaxVersion}

\* C19, part: WithTracingContext(tc) on a context that is not nil leaves it
\* not nil, gives every key of tc the value of tc, and leaves every other
\* key as it was, present with its old value or absent.
C19_Merge ==
  (ret'.op = "WithTracingContext" /\ ~trace.context.nil) =>
    /\ ~trace'.context.nil
    /\ \A k \in TraceKeys :
         IF k \in DOMAIN trace'.arg.m
         THEN /\ k \in DOMAIN trace'.context.m
              /\ trace'.context.m[k] = trace'.arg.m[k]
         ELSE /\ k \in DOMAIN trace'.context.m <=> k \in DOMAIN trace.context.m
              /\ k \in DOMAIN trace.context.m =>
                   trace'.context.m[k] = trace.context.m[k]
    /\ DOMAIN trace'.context.m \subseteq TraceKeys
\* C19, part: ResetTraceContext leaves no context.
C19_Reset == ret'.op = "ResetTraceContext" => trace'.context = NilContext
\* C19, part: GetKVStore returns the store wrapped with the current writer
\* and context when a writer is set, and the store itself otherwise.
C19_GetKVStore ==
  (ret'.op = "GetKVStore" /\ ret'.result = "ok") =>
    /\ trace'.got.store \in DOMAIN stores
    /\ trace'.got.wrapped <=> trace.writer # NilWriter
    /\ trace'.got.wrapped =>
         (trace'.got.writer = trace.writer /\
          trace'.got.context = trace.context)
    /\ ~trace'.got.wrapped => trace'.got = PlainStore(trace'.got.store)
\* C19: tracing context merge.
C19_TracingContext ==
  [][C19_Merge /\ C19_Reset /\ C19_GetKVStore]_vars
\* GetKVStore returned a wrapper whose context holds k1 from the first
\* WithTracingContext and k2 from the last one.
C19_Witness ==
  /\ ret.op = "GetKVStore" /\ ret.result = "ok" /\ trace.got.wrapped
  /\ DOMAIN trace.arg.m = {"k2"}
  /\ DOMAIN trace.got.context.m = {"k1", "k2"}
  /\ trace.got.context.m["k2"] = trace.arg.m["k2"]
  /\ trace.got.context.m["k1"] # trace.got.context.m["k2"]

\* The value of "s/latest" in the database d.
PointerOf(d) == getLatestVersion(d).ver
\* C20 as stated: every step that writes "s/latest" stores a value strictly
\* greater than the value it replaces.
C20_Original ==
  [][(ret'.op = "Commit" /\ ret'.result = "ok") =>
       PointerOf(db') > PointerOf(db)]_vars
\* C20 amended, part: only a Commit() that returns changes "s/latest".
C20_OnlyCommitWrites ==
  (dbGet(db', latestVersionKey) # dbGet(db, latestVersionKey)) =>
    (ret'.op = "Commit" /\ ret'.result = "ok")
\* C20 amended, part: a Commit() that returns stores the last commit's
\* version plus one, which is greater than the value it replaces exactly
\* when the last commit's version is not below that value.
C20_CommitWrites ==
  (ret'.op = "Commit" /\ ret'.result = "ok") =>
    /\ PointerOf(db') = lastCommitID.Version + 1
    /\ PointerOf(db') > PointerOf(db) <=>
         lastCommitID.Version >= PointerOf(db)
\* C20 amended, part: a LoadLatestVersion() that succeeds leaves the last
\* commit at the pointer's version.
C20_LatestLoaded ==
  (ret.op = "LoadLatestVersion" /\ ret.result = "ok") =>
    lastCommitID.Version = PointerOf(db)
\* C20 amended: the pointer is written only by Commit(), with the loaded
\* version plus one; it grows when the store was loaded at the pointer's
\* version and not when it was loaded at an older one.
C20_PointerWrites ==
  [](C20_LatestLoaded) /\ [][C20_OnlyCommitWrites /\ C20_CommitWrites]_vars
\* A Commit() on a store loaded at version 1, the pointer's value, has
\* moved the pointer to 2.
C20_Witness ==
  /\ ret.op = "Commit" /\ ret.result = "ok"
  /\ run.v0 = 1 /\ run.n = 1
  /\ PointerOf(db) = 2 /\ lastCommitID.Version = 2

====
